---- MODULE Spec2Model ----
(***************************************************************************)
(* Model of databot's resolution logic:                                    *)
(*   - DatabotConfig (src/databot/config.py): state-file discovery and     *)
(*     bucket-output extraction,                                           *)
(*   - storage() (src/databot/storage/__init__.py): bucket resolution,     *)
(*   - NeonClient (src/databot/neondb/client.py): connection-string        *)
(*     discovery and the connect/close/query guard.                        *)
(* Python strings that the code inspects character by character (lower(),  *)
(* upper(), "in") are sequences of one-character strings; strings the code *)
(* only passes around are TLA+ strings.                                    *)
(***************************************************************************)
EXTENDS Naturals, Sequences, FiniteSets

VARIABLES
    \* ---- inputs of DatabotConfig / storage ----
    environment,    \* the environment argument
    explicit,       \* the state_file argument of DatabotConfig (NoPath = None)
    fs,             \* the filesystem: path -> kind of file found there
    doc,            \* the JSON object held by every well-formed state file
    \* ---- state of one storage(environment) / DatabotConfig(...) run ----
    pc,             \* stage of the run
    state_file,     \* DatabotConfig.state_file
    state,          \* DatabotConfig.state: the parsed object, {} before a load
    bucket_names,   \* the candidate map, in insertion order
    bucket_name,    \* the selected bucket name
    warned,         \* the fallback warning of storage() was logged
    bucket,         \* the returned Bucket
    adc,            \* how get_default_credentials() ended, "unasked" before
    cred_warned,    \* the credentials warning of storage() was logged
    error,          \* the exception that ended the run, "none" otherwise
    \* ---- inputs of NeonClient._discover_connection_string ----
    project_name,   \* NeonClient.project_name
    database_name,  \* NeonClient.database_name
    environ,        \* os.environ: variable name -> value, Unset when absent
    config_files,   \* the candidate config files: path -> file
    \* ---- one call of _discover_connection_string ----
    d_pc,           \* "start" before the call, "done" after it
    d_result,       \* what the call did: returned value or raised error, warnings
    \* ---- one NeonClient and the asyncpg objects it created ----
    conn_str,       \* NeonClient._connection_string
    pool,           \* NeonClient._pool: index into handles, 0 for None
    conn,           \* NeonClient._conn: index into handles, 0 for None
    handles,        \* the pools and connections created: kind, times closed
    discoveries,    \* how often _discover_connection_string has run
    calls,          \* how many methods have been called on the client
    last_call,      \* the last method called and how it ended
    scope,          \* inside "async with client": the connection acquired
                    \* by __aenter__ (index into handles), 0 outside
    \* ---- one Bucket and the objects of the GCS bucket behind it ----
    blobs,          \* names of the objects that exist in the bucket
    b_calls,        \* how many Bucket methods have been called
    b_last,         \* the last method: path, outcome, blob calls it made
    \* ---- one StateLoader(state_file) and the calls made on it ----
    sl_file,        \* the file at the path given to the constructor
    sl_pc,          \* "start", then "loaded" or "raised"
    sl_state,       \* StateLoader.state
    sl_error,       \* the exception the constructor raised
    sl_cache,       \* StateLoader._cache: key/value pairs in insertion order
    sl_built,       \* how many times each index has been built
    sl_calls,       \* how many accessors have been called
    sl_last         \* the last accessor call: arguments and result

storage_vars == <<environment, explicit, fs, doc, pc, state_file, state,
                  bucket_names, bucket_name, warned, bucket, adc, cred_warned,
                  error>>

discover_vars == <<project_name, database_name, environ, config_files,
                   d_pc, d_result>>

client_vars == <<conn_str, pool, conn, handles, discoveries, calls, last_call,
                 scope>>

bucket_vars == <<blobs, b_calls, b_last>>

loader_vars == <<sl_file, sl_pc, sl_state, sl_error, sl_cache, sl_built,
                 sl_calls, sl_last>>

-----------------------------------------------------------------------------
(* Python str operations *)

UpperCase == <<"A","B","C","D","E","F","G","H","I","J","K","L","M",
               "N","O","P","Q","R","S","T","U","V","W","X","Y","Z">>
LowerCase == <<"a","b","c","d","e","f","g","h","i","j","k","l","m",
               "n","o","p","q","r","s","t","u","v","w","x","y","z">>

Letters == DOMAIN UpperCase

LowerChar(c) ==
    IF \E i \in Letters : UpperCase[i] = c
    THEN LowerCase[CHOOSE i \in Letters : UpperCase[i] = c]
    ELSE c

UpperChar(c) ==
    IF \E i \in Letters : LowerCase[i] = c
    THEN UpperCase[CHOOSE i \in Letters : LowerCase[i] = c]
    ELSE c

\* str.lower()
lower(s) == [i \in 1..Len(s) |-> LowerChar(s[i])]

\* str.upper()
upper(s) == [i \in 1..Len(s) |-> UpperChar(s[i])]

\* sub in s
Contains(sub, s) ==
    \E i \in 0..Len(s) :
        /\ i + Len(sub) <= Len(s)
        /\ SubSeq(s, i + 1, i + Len(sub)) = sub

\* Python truthiness of an output value or a connection string
None == "None"
Truthy(v) == v # None /\ v # ""

-----------------------------------------------------------------------------
(* Inputs: environment names, output keys, state documents, paths *)

MaxOutputs == 2

s_bucket == <<"b","u","c","k","e","t">>

e_dev  == <<"d","e","v">>
e_Prod == <<"P","r","o","d">>
e_main == <<"m","a","i","n">>

Environments == {e_dev, e_Prod, e_main}

k_dev_bucket_name  == <<"d","e","v","_","b","u","c","k","e","t","_","n","a","m","e">>
k_prod_bucket_name == <<"p","r","o","d","_","b","u","c","k","e","t","_","n","a","m","e">>
k_bucket_main      == <<"b","u","c","k","e","t","_","m","a","i","n">>
k_DEV_BUCKET       == <<"D","E","V","_","B","U","C","K","E","T">>
k_region           == <<"r","e","g","i","o","n">>

\* output records {key: {"value": value}} a state file may hold
OutputEntries ==
    { [key |-> k_dev_bucket_name,  value |-> "x"],
      [key |-> k_prod_bucket_name, value |-> "y"],
      [key |-> k_bucket_main,      value |-> "z"],
      [key |-> k_bucket_main,      value |-> ""],
      [key |-> k_DEV_BUCKET,       value |-> "w"],
      [key |-> k_prod_bucket_name, value |-> None],
      [key |-> k_region,           value |-> "r"] }

RECURSIVE OutputSeqs(_)
OutputSeqs(n) ==
    IF n = 0 THEN {<<>>}
    ELSE LET shorter == OutputSeqs(n - 1)
         IN shorter \cup
            { Append(s, e) : s \in {t \in shorter : Len(t) = n - 1},
                             e \in OutputEntries }

\* a JSON object has unique keys
UniqueKeys(s) == \A i, j \in DOMAIN s : s[i].key = s[j].key => i = j

\* a state document {"outputs": {...}}; the other top-level keys are not read
Docs == {[outputs |-> s] : s \in {u \in OutputSeqs(MaxOutputs) : UniqueKeys(u)}}

\* the state {} of a DatabotConfig that loaded nothing
EmptyState == [outputs |-> <<>>]

NoPath     == [kind |-> "None",   env |-> <<>>]
EmptyPath  == [kind |-> "empty",  env |-> <<>>]
CustomPath == [kind |-> "custom", env |-> <<>>]
CwdPath    == [kind |-> "cwd",    env |-> <<>>]
ProdPath   == [kind |-> "prod",   env |-> <<>>]
EnvPath(e) == [kind |-> "env",    env |-> e]

Paths == {CustomPath, CwdPath, ProdPath} \cup {EnvPath(e) : e \in Environments}

FileKinds == {"absent", "invalid_json", "invalid_utf8", "ok"}

\* os.path.exists / Path.exists
exists(files, p) == p \in DOMAIN files /\ files[p] # "absent"

-----------------------------------------------------------------------------
(* DatabotConfig *)

RECURSIVE first_existing(_, _)
first_existing(files, search_paths) ==
    IF search_paths = <<>> THEN NoPath
    ELSE IF exists(files, Head(search_paths)) THEN Head(search_paths)
    ELSE first_existing(files, Tail(search_paths))

\* mutant: the production fallback is tried before the environment's path
find_state_file_prod_first(files, env) ==
    first_existing(files, <<CwdPath, ProdPath, EnvPath(env)>>)

search_paths(env) == <<CwdPath, EnvPath(env), EnvPath(env), ProdPath>>

find_state_file(files, env) == first_existing(files, search_paths(env))

\* state_file or self._find_state_file()
init_state_file(files, given, env) ==
    IF given # NoPath /\ given # EmptyPath THEN given
    ELSE find_state_file(files, env)

\* mutant: the check passes whenever a path was found or given
state_file_exists_unchecked(files, sf) == TRUE

\* the state_file_exists property
state_file_exists(files, sf) == sf # NoPath /\ exists(files, sf)

\* what open() and json.load() make of the file at p
kind_of(files, p) == IF p \in DOMAIN files THEN files[p] ELSE "absent"

\* _load_state: IOError and JSONDecodeError become a RuntimeError
load_state(files, sf) ==
    IF kind_of(files, sf) = "ok" THEN "ok"
    ELSE IF kind_of(files, sf) = "invalid_utf8" THEN "UnicodeDecodeError"
    ELSE "RuntimeError: Failed to load state file"

\* get_outputs: {} for an empty state, else state.get("outputs", {})
get_outputs(st) == IF st = EmptyState THEN <<>> ELSE st.outputs

\* mutant: the key is matched without lower()
RECURSIVE get_bucket_names_case_sensitive(_)
get_bucket_names_case_sensitive(outputs) ==
    IF outputs = <<>> THEN <<>>
    ELSE LET o == Head(outputs)
             rest == get_bucket_names_case_sensitive(Tail(outputs))
         IN IF Contains(s_bucket, o.key) /\ Truthy(o.value)
            THEN <<[key |-> o.key, name |-> o.value]>> \o rest
            ELSE rest

RECURSIVE get_bucket_names(_)
get_bucket_names(outputs) ==
    IF outputs = <<>> THEN <<>>
    ELSE LET o == Head(outputs)
             rest == get_bucket_names(Tail(outputs))
         IN IF Contains(s_bucket, lower(o.key)) /\ Truthy(o.value)
            THEN <<[key |-> o.key, name |-> o.value]>> \o rest
            ELSE rest

-----------------------------------------------------------------------------
(* storage(environment) *)

\* StateLoader.__init__
state_loader_init(files, sf) ==
    IF ~exists(files, sf) THEN "FileNotFoundError"
    ELSE IF kind_of(files, sf) = "invalid_json" THEN "JSONDecodeError"
    ELSE IF kind_of(files, sf) = "invalid_utf8" THEN "UnicodeDecodeError"
    ELSE "ok"

\* mutant: the key is matched without lower()
RECURSIVE first_match_case_sensitive(_, _)
first_match_case_sensitive(names, env) ==
    IF names = <<>> THEN None
    ELSE IF Contains(env, Head(names).key) THEN Head(names).name
    ELSE first_match_case_sensitive(Tail(names), env)

RECURSIVE first_match(_, _)
first_match(names, env) ==
    IF names = <<>> THEN None
    ELSE IF Contains(lower(env), lower(Head(names).key)) THEN Head(names).name
    ELSE first_match(Tail(names), env)

\* mutant: the fallback logs no warning
select_bucket_silent(names, env) ==
    LET found == first_match(names, env)
    IN IF ~Truthy(found)
       THEN [name |-> names[1].name, warned |-> FALSE]
       ELSE [name |-> found, warned |-> FALSE]

\* the selection loop and the fallback: the name and whether it warned
select_bucket(names, env) ==
    LET found == first_match(names, env)
    IN IF ~Truthy(found)
       THEN [name |-> names[1].name, warned |-> TRUE]
       ELSE [name |-> found, warned |-> FALSE]

\* Bucket(bucket_name, credentials, project_id): the name, the project and
\* the client made from the credentials
Bucket(name, credentials, project_id) ==
    [bucket_name |-> name, credentials |-> credentials, project_id |-> project_id]

NoBucket == Bucket(None, None, None)

\* google.auth.default(): credentials with or without a project, or an error
ADCOutcomes == {"credentials+project", "credentials", "DefaultCredentialsError"}

\* mutant: a failure of the provider clears the credentials only
default_credentials_keep_project(outcome) ==
    IF outcome = "DefaultCredentialsError"
    THEN [credentials |-> None, project |-> "project", warned |-> TRUE]
    ELSE [credentials |-> "credentials",
          project |-> IF outcome = "credentials" THEN None ELSE "project",
          warned |-> FALSE]

\* storage(): the try/except around get_default_credentials()
default_credentials(outcome) ==
    IF outcome = "DefaultCredentialsError"
    THEN [credentials |-> None, project |-> None, warned |-> TRUE]
    ELSE [credentials |-> "credentials",
          project |-> IF outcome = "credentials" THEN None ELSE "project",
          warned |-> FALSE]

StorageStart(envs, givens, filesystems, docs) ==
    /\ environment \in envs
    /\ explicit \in givens
    /\ fs \in filesystems
    /\ doc \in docs
    /\ pc = "Unresolved"
    /\ state_file = NoPath
    /\ state = EmptyState
    /\ bucket_names = <<>>
    /\ bucket_name = None
    /\ warned = FALSE
    /\ bucket = NoBucket
    /\ adc = "unasked"
    /\ cred_warned = FALSE
    /\ error = "none"

\* DatabotConfig.__init__, up to the guard of the load
FindStateFile ==
    /\ pc = "Unresolved"
    /\ state_file' = init_state_file(fs, explicit, environment)
    /\ pc' = IF state_file' # NoPath /\ exists(fs, state_file')
             THEN "StateFileFound" ELSE "StateFileNotFound"
    /\ UNCHANGED <<environment, explicit, fs, doc, state, bucket_names,
                   bucket_name, warned, bucket, error>>
    /\ UNCHANGED <<adc, cred_warned, discover_vars, client_vars, bucket_vars, loader_vars>>

\* DatabotConfig._load_state
LoadState ==
    /\ pc = "StateFileFound"
    /\ IF load_state(fs, state_file) = "ok"
       THEN /\ state' = doc
            /\ pc' = "Parsed"
            /\ error' = "none"
       ELSE /\ state' = state
            /\ pc' = "Raised"
            /\ error' = load_state(fs, state_file)
    /\ UNCHANGED <<environment, explicit, fs, doc, state_file, bucket_names,
                   bucket_name, warned, bucket>>
    /\ UNCHANGED <<adc, cred_warned, discover_vars, client_vars, bucket_vars, loader_vars>>

\* storage(): the state_file_exists check and the StateLoader construction
RequireStateFile ==
    /\ pc \in {"Parsed", "StateFileNotFound"}
    /\ IF ~state_file_exists(fs, state_file)
       THEN /\ pc' = "Raised"
            /\ error' = "RuntimeError: Terraform state file not found"
       ELSE IF state_loader_init(fs, state_file) = "ok"
       THEN /\ pc' = "Loaded"
            /\ error' = "none"
       ELSE /\ pc' = "Raised"
            /\ error' = state_loader_init(fs, state_file)
    /\ UNCHANGED <<environment, explicit, fs, doc, state_file, state,
                   bucket_names, bucket_name, warned, bucket>>
    /\ UNCHANGED <<adc, cred_warned, discover_vars, client_vars, bucket_vars, loader_vars>>

\* storage(): config.get_bucket_names() and the emptiness check
GetBucketNames ==
    /\ pc = "Loaded"
    /\ bucket_names' = get_bucket_names(get_outputs(state))
    /\ IF bucket_names' = <<>>
       THEN /\ pc' = "Raised"
            /\ error' = "RuntimeError: No storage buckets found"
       ELSE /\ pc' = "BucketCandidatesFound"
            /\ error' = "none"
    /\ UNCHANGED <<environment, explicit, fs, doc, state_file, state,
                   bucket_name, warned, bucket>>
    /\ UNCHANGED <<adc, cred_warned, discover_vars, client_vars, bucket_vars, loader_vars>>

\* storage(): the selection loop and the fallback
SelectBucket ==
    /\ pc = "BucketCandidatesFound"
    /\ LET sel == select_bucket(bucket_names, environment)
       IN /\ bucket_name' = sel.name
          /\ warned' = sel.warned
    /\ pc' = "BucketSelected"
    /\ UNCHANGED <<environment, explicit, fs, doc, state_file, state,
                   bucket_names, bucket, error>>
    /\ UNCHANGED <<adc, cred_warned, discover_vars, client_vars, bucket_vars, loader_vars>>

\* storage(): get_default_credentials() and the Bucket that is returned
ReturnBucket ==
    /\ pc = "BucketSelected"
    /\ \E outcome \in ADCOutcomes :
        LET c == default_credentials(outcome)
        IN /\ adc' = outcome
           /\ cred_warned' = c.warned
           /\ bucket' = Bucket(bucket_name, c.credentials, c.project)
    /\ pc' = "Returned"
    /\ UNCHANGED <<environment, explicit, fs, doc, state_file, state,
                   bucket_names, bucket_name, warned, error>>
    /\ UNCHANGED <<discover_vars, client_vars, bucket_vars, loader_vars>>

-----------------------------------------------------------------------------
(* NeonClient._discover_connection_string *)

Unset == "Unset"

p_proj == <<"p","r","o","j">>
p_Proj == <<"P","r","o","j">>
db_A   == <<"d","b","A">>
db_B   == <<"d","b","B">>

Projects  == {p_proj, p_Proj}
Databases == {db_A, db_B}

NEON_CONNECTION_STRING ==
    <<"N","E","O","N","_","C","O","N","N","E","C","T","I","O","N","_",
      "S","T","R","I","N","G">>

\* f"NEON_{project_name.upper()}_{database_name.upper()}"
env_key(p, d) == <<"N","E","O","N","_">> \o upper(p) \o <<"_">> \o upper(d)

EnvNames == {env_key(p, d) : p \in Projects, d \in Databases}
                \cup {NEON_CONNECTION_STRING}

EnvValues == {Unset, "", "foo"}

\* key in os.environ
in_environ(env, k) == k \in DOMAIN env /\ env[k] # Unset

home_neon_json == "~/.config/databot/neon.json"
dot_neon_json  == ".neon.json"
neon_json      == "neon.json"

config_paths == <<home_neon_json, dot_neon_json, neon_json>>

\* a top-level entry of a config object: a connection string or a
\* {database_name: connection_string} mapping
Scalar(p, v)  == [key |-> p, is_dict |-> FALSE, scalar |-> v, dict |-> <<>>]
Mapping(p, m) == [key |-> p, is_dict |-> TRUE, scalar |-> None, dict |-> m]

File(kind, config) == [kind |-> kind, config |-> config]

ConfigObjects ==
    { <<>>,
      <<Scalar(p_proj, "cs1")>>,
      <<Scalar(p_proj, "")>>,
      <<Mapping(p_proj, <<[key |-> db_A, value |-> "cs2"]>>)>>,
      <<Mapping(p_Proj, <<[key |-> db_A, value |-> ""],
                          [key |-> db_B, value |-> "cs3"]>>)>> }

ConfigFiles ==
    { File(k, <<>>) : k \in {"absent", "invalid_json", "io_error", "invalid_utf8"} }
        \cup { File("object", c) : c \in ConfigObjects }

\* key in dict
has_key(d, k) == \E i \in DOMAIN d : d[i].key = k

\* dict[key]
item(d, k) == d[CHOOSE i \in DOMAIN d : d[i].key = k]

\* dict.get(key)
dict_get(d, k) == IF has_key(d, k) THEN item(d, k).value ELSE None

\* mutant: a mapping is not looked up by database name; its first entry is taken
project_conn_str_any_database(config, p, d) ==
    IF has_key(config, p)
    THEN LET project_config == item(config, p)
         IN IF project_config.is_dict
            THEN (IF project_config.dict = <<>> THEN None
                  ELSE project_config.dict[1].value)
            ELSE project_config.scalar
    ELSE None

\* the connection string a parsed config object holds for (p, d), None
\* when the project is not a key of it
project_conn_str(config, p, d) ==
    IF has_key(config, p)
    THEN LET project_config == item(config, p)
         IN IF project_config.is_dict
            THEN dict_get(project_config.dict, d)
            ELSE project_config.scalar
    ELSE None

NoError == [type |-> "none", env_key |-> <<>>, path |-> ""]

Returned(v, w) ==
    [status |-> "returned", value |-> v, error |-> NoError, warnings |-> w]

Raised(type, key, path, w) ==
    [status |-> "raised", value |-> None,
     error |-> [type |-> type, env_key |-> key, path |-> path], warnings |-> w]

\* the loop over config_paths and the final raise
RECURSIVE scan_config_paths(_, _, _, _, _)
scan_config_paths(p, d, files, paths, w) ==
    IF paths = <<>>
    THEN Raised("RuntimeError: Could not discover connection string",
                env_key(p, d), home_neon_json, w)
    ELSE LET f == files[Head(paths)]
             rest == Tail(paths)
         IN IF f.kind = "absent"
            THEN scan_config_paths(p, d, files, rest, w)
            ELSE IF f.kind \in {"invalid_json", "io_error"}
            THEN scan_config_paths(p, d, files, rest, w \cup {Head(paths)})
            ELSE IF f.kind = "invalid_utf8"
            THEN Raised("UnicodeDecodeError", <<>>, "", w)
            ELSE IF Truthy(project_conn_str(f.config, p, d))
            THEN Returned(project_conn_str(f.config, p, d), w)
            ELSE scan_config_paths(p, d, files, rest, w)

discover_connection_string(p, d, env, files) ==
    IF in_environ(env, env_key(p, d))
    THEN Returned(env[env_key(p, d)], {})
    ELSE IF in_environ(env, NEON_CONNECTION_STRING)
    THEN Returned(env[NEON_CONNECTION_STRING], {})
    ELSE scan_config_paths(p, d, files, config_paths, {})

NotCalled == [status |-> "none", value |-> None, error |-> NoError, warnings |-> {}]

DiscoverInit ==
    /\ project_name \in Projects
    /\ database_name \in Databases
    /\ environ \in [EnvNames -> EnvValues]
    /\ config_files \in [{home_neon_json, dot_neon_json, neon_json} -> ConfigFiles]
    /\ d_pc = "start"
    /\ d_result = NotCalled

Discover ==
    /\ d_pc = "start"
    /\ d_result' = discover_connection_string(project_name, database_name,
                                              environ, config_files)
    /\ d_pc' = "done"
    /\ UNCHANGED <<project_name, database_name, environ, config_files>>
    /\ UNCHANGED <<storage_vars, client_vars, bucket_vars, loader_vars>>


-----------------------------------------------------------------------------
(* NeonClient: connection_string, connect, close and the query methods *)

MaxCalls == 4
MaxHandles == 2

NotConnected == "RuntimeError: Not connected. Call connect() or use context manager."

\* the connection_string property: the value or the error, and the cache
connection_string(cs, p, d, env, files) ==
    IF ~Truthy(cs)
    THEN LET r == discover_connection_string(p, d, env, files)
         IN [status |-> r.status, value |-> r.value, error |-> r.error.type,
             cache |-> IF r.status = "returned" THEN r.value ELSE cs,
             discovered |-> 1]
    ELSE [status |-> "returned", value |-> cs, error |-> "none",
          cache |-> cs, discovered |-> 0]

\* mutant: executemany returns None when nothing is connected
executemany_silent(p, c) ==
    IF p # 0 THEN "pool" ELSE IF c # 0 THEN "conn" ELSE "ok"

\* each query method: delegated to the pool, else to the connection, else
\* the guard raises
fetch(p, c)       == IF p # 0 THEN "pool" ELSE IF c # 0 THEN "conn" ELSE NotConnected
fetchrow(p, c)    == IF p # 0 THEN "pool" ELSE IF c # 0 THEN "conn" ELSE NotConnected
fetchval(p, c)    == IF p # 0 THEN "pool" ELSE IF c # 0 THEN "conn" ELSE NotConnected
execute(p, c)     == IF p # 0 THEN "pool" ELSE IF c # 0 THEN "conn" ELSE NotConnected
executemany(p, c) == IF p # 0 THEN "pool" ELSE IF c # 0 THEN "conn" ELSE NotConnected

QueryOps == {"fetch", "fetchrow", "fetchval", "execute", "executemany"}

query(op, p, c) ==
    CASE op = "fetch"       -> fetch(p, c)
      [] op = "fetchrow"    -> fetchrow(p, c)
      [] op = "fetchval"    -> fetchval(p, c)
      [] op = "execute"     -> execute(p, c)
      [] op = "executemany" -> executemany(p, c)

Called(op, outcome) == [op |-> op, outcome |-> outcome]

ClientInit(given) ==
    /\ conn_str \in given
    /\ pool = 0
    /\ conn = 0
    /\ handles = <<>>
    /\ discoveries = 0
    /\ calls = 0
    /\ last_call = Called("__init__", "ok")
    /\ scope = 0

\* connect(use_pool): nothing to do when the handle of that mode is held;
\* else the connection string is read and asyncpg opens the pool or the
\* connection, which may fail
\* mutant: connect looks at the pool only
held_pool_only(use_pool, p, c) == use_pool /\ p # 0

\* connect: "if not self._pool" with use_pool, "if not self._conn" without
held(use_pool, p, c) == (use_pool /\ p # 0) \/ (~use_pool /\ c # 0)

connect(use_pool, op) ==
    /\ calls < MaxCalls
    /\ calls' = calls + 1
    /\ IF held(use_pool, pool, conn)
       THEN /\ last_call' = Called(op, "ok")
            /\ UNCHANGED <<conn_str, pool, conn, handles, discoveries>>
       ELSE LET cs == connection_string(conn_str, project_name, database_name,
                                        environ, config_files)
            IN /\ conn_str' = cs.cache
               /\ discoveries' = discoveries + cs.discovered
               /\ IF cs.status = "raised"
                  THEN /\ last_call' = Called(op, cs.error)
                       /\ UNCHANGED <<pool, conn, handles>>
                  ELSE \E opened \in BOOLEAN :
                        IF opened
                        THEN /\ Len(handles) < MaxHandles
                             /\ handles' = Append(handles,
                                    [kind |-> IF use_pool THEN "pool" ELSE "conn",
                                     closes |-> 0])
                             /\ pool' = IF use_pool THEN Len(handles') ELSE pool
                             /\ conn' = IF use_pool THEN conn ELSE Len(handles')
                             /\ last_call' = Called(op, "ok")
                        ELSE /\ last_call' = Called(op, "ConnectionError")
                             /\ UNCHANGED <<pool, conn, handles>>
    /\ UNCHANGED <<storage_vars, discover_vars, bucket_vars, loader_vars>>

Connect(use_pool) ==
    /\ connect(use_pool, "connect")
    /\ UNCHANGED scope

closed(hs, h) == IF h = 0 THEN hs ELSE [hs EXCEPT ![h].closes = @ + 1]

\* mutant: the connection is closed only when no pool is held
close_pool_else_connection(hs, p, c) ==
    IF p # 0
    THEN [handles |-> closed(hs, p), pool |-> 0, conn |-> c]
    ELSE [handles |-> closed(hs, c), pool |-> 0, conn |-> 0]

\* close(): the pool, then the connection; both fields end as None
close(hs, p, c) ==
    [handles |-> closed(closed(hs, p), c), pool |-> 0, conn |-> 0]

Close ==
    /\ calls < MaxCalls
    /\ calls' = calls + 1
    /\ LET r == close(handles, pool, conn)
       IN /\ handles' = r.handles
          /\ pool' = r.pool
          /\ conn' = r.conn
    /\ last_call' = Called("close", "ok")
    /\ UNCHANGED <<conn_str, discoveries, scope>>
    /\ UNCHANGED <<storage_vars, discover_vars, bucket_vars, loader_vars>>

\* "async with client": __aenter__ awaits connect(); when connect() raises
\* the body is not entered and __aexit__ does not run
Aenter ==
    /\ scope = 0
    /\ connect(FALSE, "__aenter__")
    /\ scope' = IF last_call'.outcome = "ok" THEN conn' ELSE 0

\* mutant: __aexit__ closes only when the body completed normally
aexit_unless_raised(hs, p, c, exc) ==
    IF exc THEN [handles |-> hs, pool |-> p, conn |-> c] ELSE close(hs, p, c)

\* __aexit__(exc_type, exc_val, exc_tb): awaits close() whatever the body did
aexit(hs, p, c, exc) == close(hs, p, c)

\* the body of "async with" is over, normally or with an exception (exc);
\* __aexit__ returns None, so the exception of the body propagates
Aexit ==
    /\ scope # 0
    /\ \E exc \in BOOLEAN :
        /\ LET r == aexit(handles, pool, conn, exc)
           IN /\ handles' = r.handles
              /\ pool' = r.pool
              /\ conn' = r.conn
        /\ last_call' = Called("__aexit__", IF exc THEN "BodyError" ELSE "ok")
    /\ calls' = calls + 1
    /\ scope' = 0
    /\ UNCHANGED <<conn_str, discoveries>>
    /\ UNCHANGED <<storage_vars, discover_vars, bucket_vars, loader_vars>>

\* fetch, fetchrow, fetchval, execute, executemany
Query(op) ==
    /\ calls < MaxCalls
    /\ calls' = calls + 1
    /\ last_call' = Called(op, query(op, pool, conn))
    /\ UNCHANGED <<conn_str, pool, conn, handles, discoveries, scope>>
    /\ UNCHANGED <<storage_vars, discover_vars, bucket_vars, loader_vars>>

-----------------------------------------------------------------------------
(* Bucket: download_file, download_data, delete_file, upload_data *)

MaxBucketCalls == 3

ObjectNames == {"a.json", "b.bin", "c/d.txt"}

BlobCall(method, outcome) == [method |-> method, outcome |-> outcome]

BucketResult(outcome, blob_calls, objects) ==
    [outcome |-> outcome, blob_calls |-> blob_calls, blobs |-> objects]

\* blob.exists()
blob_exists(objects, remote_path) == remote_path \in objects

\* download_file: blob.exists(), then blob.download_to_filename
download_file(objects, remote_path) ==
    IF ~blob_exists(objects, remote_path)
    THEN BucketResult("FileNotFoundError",
                      <<BlobCall("exists", FALSE)>>, objects)
    ELSE BucketResult("ok",
                      <<BlobCall("exists", TRUE),
                        BlobCall("download_to_filename", "ok")>>, objects)

\* download_data: blob.exists(), then blob.download_as_bytes
download_data(objects, remote_path) ==
    IF ~blob_exists(objects, remote_path)
    THEN BucketResult("FileNotFoundError",
                      <<BlobCall("exists", FALSE)>>, objects)
    ELSE BucketResult("ok",
                      <<BlobCall("exists", TRUE),
                        BlobCall("download_as_bytes", "ok")>>, objects)

\* delete_file: blob.delete() at once; the error of the blob call, NotFound
\* for an object that does not exist, is the error of delete_file
delete_file(objects, remote_path) ==
    IF remote_path \in objects
    THEN BucketResult("ok", <<BlobCall("delete", "ok")>>,
                      objects \ {remote_path})
    ELSE BucketResult("NotFound", <<BlobCall("delete", "NotFound")>>, objects)

\* upload_data: blob.upload_from_string
upload_data(objects, remote_path) ==
    BucketResult("ok", <<BlobCall("upload_from_string", "ok")>>,
                 objects \cup {remote_path})

BucketOps == {"download_file", "download_data", "delete_file", "upload_data"}

bucket_op(op, objects, remote_path) ==
    CASE op = "download_file" -> download_file(objects, remote_path)
      [] op = "download_data" -> download_data(objects, remote_path)
      [] op = "delete_file"   -> delete_file(objects, remote_path)
      [] op = "upload_data"   -> upload_data(objects, remote_path)

BucketCalled(op, remote_path, outcome, blob_calls) ==
    [op |-> op, path |-> remote_path, outcome |-> outcome,
     blob_calls |-> blob_calls]

BucketInit(contents) ==
    /\ blobs \in contents
    /\ b_calls = 0
    /\ b_last = BucketCalled("__init__", "", "ok", <<>>)

BucketCall(op) ==
    /\ b_calls < MaxBucketCalls
    /\ b_calls' = b_calls + 1
    /\ \E remote_path \in ObjectNames :
        LET r == bucket_op(op, blobs, remote_path)
        IN /\ blobs' = r.blobs
           /\ b_last' = BucketCalled(op, remote_path, r.outcome, r.blob_calls)
    /\ UNCHANGED <<storage_vars, discover_vars, client_vars, loader_vars>>

DownloadFile == BucketCall("download_file")
DownloadData == BucketCall("download_data")
DeleteFile   == BucketCall("delete_file")
UploadData   == BucketCall("upload_data")

-----------------------------------------------------------------------------
(* StateLoader: the constructor and the accessors *)

MaxResources == 2
MaxLoaderCalls == 3

\* output names and module names
k_storage_bucket_name ==
    <<"s","t","o","r","a","g","e","_","b","u","c","k","e","t","_","n","a","m","e">>
k_storage_ == <<"s","t","o","r","a","g","e","_">>
k_storage  == <<"s","t","o","r","a","g","e">>

m_storage        == <<"s","t","o","r","a","g","e">>
m_dev            == <<"d","e","v">>
m_storage_bucket == <<"s","t","o","r","a","g","e","_","b","u","c","k","e","t">>

ModuleNames == {m_storage, m_dev, m_storage_bucket}

KV(k, v) == [key |-> k, value |-> v]

\* the object of one output in the state file, with or without "value"
OutputObjects ==
    { <<KV("value", "v"), KV("type", "string")>>,
      <<KV("value", "w"), KV("type", "string")>>,
      <<KV("type", "string")>> }

StateOutputEntries ==
    { KV(k, o) : k \in {k_storage_bucket_name, k_storage_, k_storage,
                        k_dev_bucket_name},
                 o \in OutputObjects }

RECURSIVE SeqsUpTo(_, _)
SeqsUpTo(S, n) ==
    IF n = 0 THEN {<<>>}
    ELSE LET shorter == SeqsUpTo(S, n - 1)
         IN shorter \cup {Append(s, e) : s \in shorter, e \in S}

google_storage_bucket     == "google_storage_bucket"
google_service_account    == "google_service_account"
google_workbench_instance == "google_workbench_instance"

ResourceTypes ==
    {google_storage_bucket, google_service_account, google_workbench_instance}

\* the attributes object of one instance; None stands for a missing key
Attributes(name, email, location) ==
    (IF name = None THEN <<>> ELSE <<KV("name", name)>>)
      \o (IF email = None THEN <<>> ELSE <<KV("email", email)>>)
      \o <<KV("location", location)>>

Instance(attributes) == <<KV("attributes", attributes)>>

i_a        == Instance(Attributes("a", "a@x", "eu"))
i_b        == Instance(Attributes("b", "b@x", "eu"))
i_a_us     == Instance(Attributes("a", "a@x", "us"))
i_missing  == Instance(Attributes(None, None, "eu"))
i_empty    == Instance(Attributes("", "", "eu"))
i_no_attrs == <<>>

InstanceLists ==
    { <<>>, <<i_a, i_b>>, <<i_a_us, i_missing>>, <<i_empty, i_no_attrs>> }

Resource(type, name, address, instances) ==
    [type |-> type, name |-> name, address |-> address, instances |-> instances]

\* resources told apart by name and address
NamedResources ==
    { Resource(t, n, a, <<>>) :
        t \in {google_storage_bucket, google_service_account},
        n \in {"a", "b"}, a \in {None, "a"} }

\* resources told apart by their instances
InstanceResources ==
    { Resource(t, "r", None, is) : t \in ResourceTypes, is \in InstanceLists }

StateDocument(outputs, resources) == [outputs |-> outputs, resources |-> resources]

NoDocument == StateDocument(<<>>, <<>>)

OutputDocuments ==
    { StateDocument(o, <<Resource(google_storage_bucket, "r", None, <<i_a>>)>>) :
        o \in {s \in SeqsUpTo(StateOutputEntries, MaxOutputs) : UniqueKeys(s)} }

ResourceDocuments ==
    { StateDocument(<<>>, r) :
        r \in SeqsUpTo(NamedResources, MaxResources)
                \cup SeqsUpTo(InstanceResources, MaxResources) }

\* the file at the path given to StateLoader: absent, text that is not JSON
\* (with the position where decoding stops), bytes that are not UTF-8, or a
\* document
StateFile(kind, text, pos, document) ==
    [kind |-> kind, text |-> text, pos |-> pos, document |-> document]

BadStateFiles ==
    { StateFile("absent", "", 0, NoDocument),
      StateFile("invalid_json", "{bad", 1, NoDocument),
      StateFile("invalid_json", "[1,", 3, NoDocument),
      StateFile("invalid_utf8", "", 0, NoDocument) }

StateFiles(documents) ==
    BadStateFiles \cup {StateFile("ok", "", 0, d) : d \in documents}

\* dict[key] = value
dict_set(d, k, v) ==
    IF has_key(d, k)
    THEN [i \in DOMAIN d |-> IF d[i].key = k THEN KV(k, v) ELSE d[i]]
    ELSE Append(d, KV(k, v))

\* dict.get(key, default)
dict_get_default(d, k, default) ==
    IF has_key(d, k) THEN item(d, k).value ELSE default

LoaderError(type, msg, doc_text, pos) ==
    [type |-> type, msg |-> msg, doc |-> doc_text, pos |-> pos]

NoLoaderError == LoaderError("none", <<>>, "", 0)

\* json.load of the opened file
json_load(file) ==
    CASE file.kind = "ok" ->
            [status |-> "ok", value |-> file.document, error |-> NoLoaderError]
      [] file.kind = "invalid_json" ->
            [status |-> "raised", value |-> NoDocument,
             error |-> LoaderError("JSONDecodeError", <<"Expecting value">>,
                                   file.text, file.pos)]
      [] file.kind = "invalid_utf8" ->
            [status |-> "raised", value |-> NoDocument,
             error |-> LoaderError("UnicodeDecodeError",
                                   <<"invalid start byte">>, "", 0)]

\* StateLoader(state_file): the exists() test, json.load, and the
\* JSONDecodeError raised again with the text and the position of the first
\* one; any other error of json.load is raised as it is
StateLoader(file) ==
    IF file.kind = "absent"
    THEN [status |-> "raised", state |-> NoDocument,
          error |-> LoaderError("FileNotFoundError", <<"State file not found">>, "", 0)]
    ELSE LET r == json_load(file)
         IN IF r.status = "ok"
            THEN [status |-> "loaded", state |-> r.value, error |-> NoLoaderError]
            ELSE IF r.error.type = "JSONDecodeError"
            THEN [status |-> "raised", state |-> NoDocument,
                  error |-> LoaderError("JSONDecodeError",
                                        <<"Failed to parse state file">> \o r.error.msg,
                                        r.error.doc, r.error.pos)]
            ELSE [status |-> "raised", state |-> NoDocument, error |-> r.error]

\* what an accessor leaves and returns: the cache, the result, and how many
\* times it built the outputs index and the resources index
Access(cache, result, outputs_built, resources_built) ==
    [cache |-> cache, result |-> result,
     built |-> [outputs |-> outputs_built, resources |-> resources_built]]

\* the loop of get_outputs: outputs[key] = output.get("value")
RECURSIVE outputs_index(_, _)
outputs_index(items, outputs) ==
    IF items = <<>> THEN outputs
    ELSE outputs_index(Tail(items),
                       dict_set(outputs, Head(items).key,
                                dict_get(Head(items).value, "value")))

\* mutant: get_outputs builds the index on every call
StateLoader_get_outputs_uncached(st, cache) ==
    LET outputs == outputs_index(st.outputs, <<>>)
    IN Access(dict_set(cache, "outputs", outputs), outputs, 1, 0)

\* get_outputs()
StateLoader_get_outputs(st, cache) ==
    IF ~has_key(cache, "outputs")
    THEN LET outputs == outputs_index(st.outputs, <<>>)
         IN Access(dict_set(cache, "outputs", outputs), outputs, 1, 0)
    ELSE Access(cache, item(cache, "outputs").value, 0, 0)

\* get_output(name, default)
get_output(st, cache, name, default) ==
    LET a == StateLoader_get_outputs(st, cache)
    IN Access(a.cache, dict_get_default(a.result, name, default),
              a.built.outputs, 0)

\* str.startswith
startswith(s, prefix) ==
    Len(prefix) <= Len(s) /\ SubSeq(s, 1, Len(prefix)) = prefix

\* mutant: the sub-key keeps the delimiter
module_output_key_from_delimiter(key, module_name) ==
    SubSeq(key, Len(module_name) + 1, Len(key))

\* key[len(module_name) + 1:]
module_output_key(key, module_name) ==
    SubSeq(key, Len(module_name) + 2, Len(key))

\* the loop of get_module_outputs
RECURSIVE module_outputs(_, _, _)
module_outputs(items, module_name, acc) ==
    IF items = <<>> THEN acc
    ELSE LET key == Head(items).key
         IN module_outputs(Tail(items), module_name,
                IF startswith(key, module_name \o <<"_">>)
                THEN dict_set(acc, module_output_key(key, module_name),
                              Head(items).value)
                ELSE acc)

\* get_module_outputs(module_name)
get_module_outputs(st, cache, module_name) ==
    LET a == StateLoader_get_outputs(st, cache)
    IN Access(a.cache, module_outputs(a.result, module_name, <<>>),
              a.built.outputs, 0)

\* the loop of get_resources: the resources grouped by type
RECURSIVE resources_by_type(_, _)
resources_by_type(rs, resources) ==
    IF rs = <<>> THEN resources
    ELSE LET rtype == Head(rs).type
         IN resources_by_type(Tail(rs),
                dict_set(resources, rtype,
                         Append(dict_get_default(resources, rtype, <<>>),
                                Head(rs))))

\* get_resources(resource_type)
get_resources(st, cache, resource_type) ==
    LET build == ~has_key(cache, "resources")
        c == IF build
             THEN dict_set(cache, "resources", resources_by_type(st.resources, <<>>))
             ELSE cache
        resources == item(c, "resources").value
    IN Access(c,
              IF Truthy(resource_type)
              THEN <<KV(resource_type,
                        dict_get_default(resources, resource_type, <<>>))>>
              ELSE resources,
              0, IF build THEN 1 ELSE 0)

\* get_resource_instances(resource_type)
get_resource_instances(st, cache, resource_type) ==
    LET a == get_resources(st, cache, resource_type)
    IN Access(a.cache, dict_get_default(a.result, resource_type, <<>>),
              0, a.built.resources)

\* mutant: only the name is compared
name_matches_by_name_only(instance, name) == instance.name = name

\* instance.get("name") == name or instance.get("address") == name
name_matches(instance, name) == instance.name = name \/ instance.address = name

\* the loop of find_resources_by_name
RECURSIVE matches_of(_, _, _)
matches_of(instances, name, matches) ==
    IF instances = <<>> THEN matches
    ELSE matches_of(Tail(instances), name,
                    IF name_matches(Head(instances), name)
                    THEN Append(matches, Head(instances))
                    ELSE matches)

\* find_resources_by_name(resource_type, name)
find_resources_by_name(st, cache, resource_type, name) ==
    LET a == get_resource_instances(st, cache, resource_type)
    IN Access(a.cache, matches_of(a.result, name, <<>>), 0, a.built.resources)

\* mutant: an entry that is already in the map is kept
keyed_first_wins(found, key, attrs) ==
    IF has_key(found, key) THEN found ELSE dict_set(found, key, attrs)

\* buckets[bucket_name] = attrs
keyed(found, key, attrs) == dict_set(found, key, attrs)

\* the inner loop of the typed accessors, over the instances of one resource
RECURSIVE by_attribute(_, _, _)
by_attribute(insts, attribute, found) ==
    IF insts = <<>> THEN found
    ELSE LET attrs == dict_get_default(Head(insts), "attributes", <<>>)
             key == dict_get(attrs, attribute)
         IN by_attribute(Tail(insts), attribute,
                         IF Truthy(key) THEN keyed(found, key, attrs) ELSE found)

\* the outer loop of the typed accessors, over the resources of the type
RECURSIVE instances_by_attribute(_, _, _)
instances_by_attribute(instances, attribute, found) ==
    IF instances = <<>> THEN found
    ELSE instances_by_attribute(Tail(instances), attribute,
            IF Head(instances).instances # <<>>
            THEN by_attribute(Head(instances).instances, attribute, found)
            ELSE found)

typed_accessor(st, cache, resource_type, attribute) ==
    LET a == get_resource_instances(st, cache, resource_type)
    IN Access(a.cache, instances_by_attribute(a.result, attribute, <<>>),
              0, a.built.resources)

get_google_storage_buckets(st, cache) ==
    typed_accessor(st, cache, google_storage_bucket, "name")

get_google_service_accounts(st, cache) ==
    typed_accessor(st, cache, google_service_account, "email")

get_google_workbench_instances(st, cache) ==
    typed_accessor(st, cache, google_workbench_instance, "name")

LoaderCalled(op, args, result) == [op |-> op, args |-> args, result |-> result]

NoBuilds == [outputs |-> 0, resources |-> 0]

LoaderInit(files) ==
    /\ sl_file \in files
    /\ sl_pc = "start"
    /\ sl_state = NoDocument
    /\ sl_error = NoLoaderError
    /\ sl_cache = <<>>
    /\ sl_built = NoBuilds
    /\ sl_calls = 0
    /\ sl_last = LoaderCalled("none", <<>>, <<>>)

\* StateLoader(state_file)
Load ==
    /\ sl_pc = "start"
    /\ LET r == StateLoader(sl_file)
       IN /\ sl_pc' = r.status
          /\ sl_state' = r.state
          /\ sl_error' = r.error
    /\ sl_cache' = <<>>
    /\ sl_last' = LoaderCalled("__init__", <<>>, <<>>)
    /\ UNCHANGED <<sl_file, sl_built, sl_calls>>
    /\ UNCHANGED <<storage_vars, discover_vars, client_vars, bucket_vars>>

\* one accessor call on the loaded StateLoader
Accessor(op, args, a) ==
    /\ sl_pc = "loaded"
    /\ sl_calls < MaxLoaderCalls
    /\ sl_calls' = sl_calls + 1
    /\ sl_cache' = a.cache
    /\ sl_built' = [outputs   |-> sl_built.outputs + a.built.outputs,
                    resources |-> sl_built.resources + a.built.resources]
    /\ sl_last' = LoaderCalled(op, args, a.result)
    /\ UNCHANGED <<sl_file, sl_pc, sl_state, sl_error>>
    /\ UNCHANGED <<storage_vars, discover_vars, client_vars, bucket_vars>>

OutputNames == {k_storage_bucket_name, k_storage, k_region}

Defaults == {None, "fallback"}

ResourceTypeArgs == ResourceTypes \cup {"aws_s3_bucket", ""}

ResourceNameArgs == {"a", "b", "c"}

GetOutputs ==
    Accessor("get_outputs", <<>>, StateLoader_get_outputs(sl_state, sl_cache))

GetOutput ==
    \E name \in OutputNames, default \in Defaults :
        Accessor("get_output", <<name, default>>,
                 get_output(sl_state, sl_cache, name, default))

GetModuleOutputs ==
    \E module_name \in ModuleNames :
        Accessor("get_module_outputs", <<module_name>>,
                 get_module_outputs(sl_state, sl_cache, module_name))

GetResources ==
    \E resource_type \in {None, google_storage_bucket} :
        Accessor("get_resources", <<resource_type>>,
                 get_resources(sl_state, sl_cache, resource_type))

FindResourcesByName ==
    \E resource_type \in ResourceTypeArgs, name \in ResourceNameArgs :
        Accessor("find_resources_by_name", <<resource_type, name>>,
                 find_resources_by_name(sl_state, sl_cache, resource_type, name))

GetGoogleStorageBuckets ==
    Accessor("get_google_storage_buckets", <<>>,
             get_google_storage_buckets(sl_state, sl_cache))

GetGoogleServiceAccounts ==
    Accessor("get_google_service_accounts", <<>>,
             get_google_service_accounts(sl_state, sl_cache))

GetGoogleWorkbenchInstances ==
    Accessor("get_google_workbench_instances", <<>>,
             get_google_workbench_instances(sl_state, sl_cache))

-----------------------------------------------------------------------------
(* Specifications *)

vars == <<storage_vars, discover_vars, client_vars, bucket_vars, loader_vars>>

ClientIdle == ClientInit({None})

BucketIdle == BucketInit({{}})

LoaderIdle == LoaderInit({StateFile("absent", "", 0, NoDocument)})

\* inputs of the pipelines a specification does not run
StorageIdle ==
    StorageStart({e_dev}, {NoPath}, {[p \in Paths |-> "absent"]}, {EmptyState})

DiscoverIdle ==
    /\ project_name = p_proj
    /\ database_name = db_A
    /\ environ = [k \in EnvNames |-> Unset]
    /\ config_files = [f \in {home_neon_json, dot_neon_json, neon_json}
                          |-> File("absent", <<>>)]
    /\ d_pc = "start"
    /\ d_result = NotCalled

\* storage(environment): no explicit path; the files that exist hold the
\* same content
StorageFilesystems ==
    { [p \in Paths |-> IF p \in E THEN k ELSE "absent"] :
        E \in SUBSET (Paths \ {CustomPath}),
        k \in {"invalid_json", "invalid_utf8", "ok"} }

InitStorage ==
    /\ StorageStart(Environments, {NoPath}, StorageFilesystems, Docs)
    /\ DiscoverIdle
    /\ ClientIdle
    /\ BucketIdle
    /\ LoaderIdle

NextStorage ==
    \/ FindStateFile
    \/ LoadState
    \/ RequireStateFile
    \/ GetBucketNames
    \/ SelectBucket
    \/ ReturnBucket

SpecStorage == InitStorage /\ [][NextStorage]_vars

\* DatabotConfig(state_file, environment): any filesystem
ConfigDocs == {[outputs |-> <<[key |-> k_bucket_main, value |-> "z"]>>]}

InitConfig ==
    /\ StorageStart(Environments, {NoPath, EmptyPath, CustomPath, CwdPath},
                    [Paths -> FileKinds], ConfigDocs)
    /\ DiscoverIdle
    /\ ClientIdle
    /\ BucketIdle
    /\ LoaderIdle

NextConfig ==
    \/ FindStateFile
    \/ LoadState

SpecConfig == InitConfig /\ [][NextConfig]_vars

InitDiscover ==
    /\ StorageIdle
    /\ DiscoverInit
    /\ ClientIdle
    /\ BucketIdle
    /\ LoaderIdle

NextDiscover == Discover

SpecDiscover == InitDiscover /\ [][NextDiscover]_vars

\* one NeonClient, constructed with or without a connection string, in an
\* environment where discovery finds a string, an empty string or nothing
ClientEnvirons ==
    { [k \in EnvNames |-> IF k = NEON_CONNECTION_STRING THEN v ELSE Unset] :
        v \in EnvValues }

ClientConfigFiles ==
    { [f \in {home_neon_json, dot_neon_json, neon_json} |->
          IF f = home_neon_json THEN h ELSE File("absent", <<>>)] :
        h \in {File("absent", <<>>), File("object", <<Scalar(p_proj, "cs1")>>)} }

InitClient ==
    /\ StorageIdle
    /\ project_name = p_proj
    /\ database_name = db_A
    /\ environ \in ClientEnvirons
    /\ config_files \in ClientConfigFiles
    /\ d_pc = "start"
    /\ d_result = NotCalled
    /\ ClientInit({None, "", "given"})
    /\ BucketIdle
    /\ LoaderIdle

NextClient ==
    \/ \E use_pool \in BOOLEAN : Connect(use_pool)
    \/ Close
    \/ \E op \in QueryOps : Query(op)
    \/ Aenter
    \/ Aexit

SpecClient == InitClient /\ [][NextClient]_vars

\* one Bucket over a GCS bucket with any of the objects in it
InitBucket ==
    /\ StorageIdle
    /\ DiscoverIdle
    /\ ClientIdle
    /\ BucketInit(SUBSET ObjectNames)
    /\ LoaderIdle

NextBucket ==
    \/ DownloadFile
    \/ DownloadData
    \/ DeleteFile
    \/ UploadData

SpecBucket == InitBucket /\ [][NextBucket]_vars

\* a StateLoader over a state file whose document varies in its outputs
InitStateOutputs ==
    /\ StorageIdle
    /\ DiscoverIdle
    /\ ClientIdle
    /\ BucketIdle
    /\ LoaderInit(StateFiles(OutputDocuments))

NextStateOutputs ==
    \/ Load
    \/ GetOutputs
    \/ GetOutput
    \/ GetModuleOutputs
    \/ GetResources

SpecStateOutputs == InitStateOutputs /\ [][NextStateOutputs]_vars

\* a StateLoader over a state file whose document varies in its resources
InitStateResources ==
    /\ StorageIdle
    /\ DiscoverIdle
    /\ ClientIdle
    /\ BucketIdle
    /\ LoaderInit(StateFiles(ResourceDocuments))

NextStateResources ==
    \/ Load
    \/ FindResourcesByName
    \/ GetGoogleStorageBuckets
    \/ GetGoogleServiceAccounts
    \/ GetGoogleWorkbenchInstances

SpecStateResources == InitStateResources /\ [][NextStateResources]_vars

-----------------------------------------------------------------------------
(* Properties of bucket resolution and state-file discovery *)

\* sub occurs in s, compared without regard to case
ContainsCI(sub, s) ==
    \E a \in 0..Len(s) :
        /\ a + Len(sub) <= Len(s)
        /\ \A k \in 1..Len(sub) : LowerChar(s[a + k]) = LowerChar(sub[k])

Min(S) == CHOOSE i \in S : \A j \in S : i <= j

Selected == pc \in {"BucketSelected", "Returned"}

\* the outputs of the state document, in key order
Outputs == state.outputs

\* the positions of the outputs document that are candidates of the map
CandidatePositions ==
    {i \in DOMAIN Outputs : \E j \in DOMAIN bucket_names :
                                bucket_names[j].key = Outputs[i].key}

\* C1: once a bucket is selected, it is the value of the first candidate, in
\* the key order of the outputs document, whose key contains the environment
\* name without regard to case, and the value of the first candidate when no
\* candidate key contains it.
C1_SelectsFirstEnvironmentCandidate ==
    Selected =>
        LET M == {i \in CandidatePositions :
                     ContainsCI(environment, Outputs[i].key)}
        IN /\ CandidatePositions # {}
           /\ bucket_name = IF M # {} THEN Outputs[Min(M)].value
                            ELSE Outputs[Min(CandidatePositions)].value

\* the environment's candidate is selected although it is not the first one
C1_Witness ==
    /\ pc = "BucketSelected"
    /\ environment = e_dev
    /\ bucket_names = <<[key |-> k_prod_bucket_name, name |-> "y"],
                        [key |-> k_dev_bucket_name, name |-> "x"]>>
    /\ bucket_name = "x"

\* the outputs of the state document whose key contains "bucket"
BucketOutputs ==
    SelectSeq(Outputs, LAMBDA o : ContainsCI(s_bucket, o.key))

OnlyBucketMain ==
    /\ Selected
    /\ BucketOutputs = <<[key |-> k_bucket_main, value |-> "z"]>>

\* C2 as stated: with {bucket_main: z} the only bucket output, every
\* environment resolves to z and the fallback warning is logged.
C2_OnlyBucketMainAlwaysWarns ==
    OnlyBucketMain => bucket_name = "z" /\ warned

\* C2 as amended: every environment resolves to z, and the fallback warning
\* is logged exactly when the environment name does not occur in bucket_main.
C2_OnlyBucketMainWarnsUnlessKeyMatches ==
    OnlyBucketMain =>
        /\ bucket_name = "z"
        /\ warned <=> ~ContainsCI(environment, k_bucket_main)

C2_Witness ==
    /\ OnlyBucketMain
    /\ environment = e_dev
    /\ bucket_name = "z"
    /\ warned

\* the paths of the claimed search order that exist
RECURSIVE ExistingOf(_)
ExistingOf(ps) ==
    IF ps = <<>> THEN <<>>
    ELSE IF Head(ps) \in DOMAIN fs /\ fs[Head(ps)] # "absent"
         THEN <<Head(ps)>> \o ExistingOf(Tail(ps))
         ELSE ExistingOf(Tail(ps))

Searched == <<CwdPath, EnvPath(environment), ProdPath>>

ReportsNoStateFile ==
    /\ pc = "StateFileNotFound"
    /\ state = EmptyState
    /\ error = "none"

\* C3 as stated: the state file is the first existing path among the
\* supplied path, ./terraform.tfstate, the environment's path and the
\* production fallback; when none exists there is no path, the state is
\* empty and nothing is raised.
C3_FirstExistingOfFour ==
    pc # "Unresolved" =>
        LET found == ExistingOf((IF explicit = NoPath THEN <<>> ELSE <<explicit>>)
                                \o Searched)
        IN IF found # <<>> THEN state_file = found[1]
           ELSE state_file = NoPath /\ ReportsNoStateFile

\* C3 as amended: a supplied non-empty path is the state file whether or not
\* it exists and nothing is searched; without one the state file is the first
\* existing path among ./terraform.tfstate, the environment's path and the
\* production fallback, and None when none exists. A state file that is None
\* or does not exist is reported as no state file, without raising.
C3_SuppliedPathOrFirstExisting ==
    pc # "Unresolved" =>
        /\ IF explicit \notin {NoPath, EmptyPath} THEN state_file = explicit
           ELSE IF ExistingOf(Searched) # <<>>
                THEN state_file = ExistingOf(Searched)[1]
                ELSE state_file = NoPath
        /\ ExistingOf(<<state_file>>) = <<>> => ReportsNoStateFile
        /\ ExistingOf(<<state_file>>) # <<>> => pc # "StateFileNotFound"

\* a supplied path that does not exist is kept although ./terraform.tfstate
\* exists, and no state file is reported
C3_Witness ==
    /\ pc = "StateFileNotFound"
    /\ explicit = CustomPath
    /\ fs[CustomPath] = "absent"
    /\ fs[CwdPath] = "ok"
    /\ state_file = CustomPath
    /\ state = EmptyState

\* the stage of the resolution state machine a position of the run is in
Stage(p) == IF p = "Loaded" THEN "Parsed" ELSE p

StageSteps ==
    { <<"Unresolved", "StateFileFound">>, <<"Unresolved", "StateFileNotFound">>,
      <<"StateFileFound", "Parsed">>, <<"StateFileFound", "Raised">>,
      <<"StateFileNotFound", "Raised">>,
      <<"Parsed", "BucketCandidatesFound">>, <<"Parsed", "Raised">>,
      <<"BucketCandidatesFound", "BucketSelected">>,
      <<"BucketSelected", "Returned">> }

\* C4: a run moves through the stages in order and stops at the first failed
\* transition with an error; a bucket is selected only when a state file was
\* found, parsed and gave a non-empty candidate map; a missing state file and
\* an empty candidate map end the run in their configuration errors.
C4_StagesInOrder ==
    [][ /\ Stage(pc') # Stage(pc) => <<Stage(pc), Stage(pc')>> \in StageSteps
        /\ (pc' = "Raised") <=> (error' # "none")
        /\ pc' \in {"BucketSelected", "Returned"} =>
              /\ state_file' \in DOMAIN fs' /\ fs'[state_file'] = "ok"
              /\ state' = doc'
              /\ bucket_names' # <<>>
              /\ Truthy(bucket_name')
        /\ pc = "StateFileNotFound" /\ pc' # pc =>
              error' = "RuntimeError: Terraform state file not found"
        /\ pc = "Loaded" /\ pc' = "Raised" =>
              error' = "RuntimeError: No storage buckets found"
        /\ bucket_names' = <<>> => pc' \notin {"BucketCandidatesFound",
                                              "BucketSelected", "Returned"}
      ]_vars

\* a run that went through every stage and selected by the fallback
C4_Witness ==
    /\ pc = "Returned"
    /\ warned
    /\ bucket.bucket_name = bucket_name

CandidatesBuilt ==
    \/ pc \in {"BucketCandidatesFound", "BucketSelected", "Returned"}
    \/ pc = "Raised" /\ error = "RuntimeError: No storage buckets found"

AsCandidate(o) == [key |-> o.key, name |-> o.value]

Range(s) == {s[i] : i \in DOMAIN s}

\* C5 as stated: the candidate map holds exactly the outputs whose key
\* contains "bucket" without regard to case, each with its value, and the run
\* fails with the configuration error exactly when the map is empty.
C5_AllBucketOutputsAreCandidates ==
    CandidatesBuilt =>
        /\ Range(bucket_names) = {AsCandidate(o) : o \in Range(BucketOutputs)}
        /\ (pc = "Raised") <=> (bucket_names = <<>>)

\* the outputs among the first n of s that have a truthy value
TruthyUpTo(s, n) == {j \in 1..n : Truthy(s[j].value)}

\* C5 as amended: the candidate map holds, in document order, exactly the
\* outputs whose key contains "bucket" without regard to case and whose value
\* is truthy, and the run fails with the configuration error exactly when the
\* map is empty.
C5_TruthyBucketOutputsAreCandidates ==
    CandidatesBuilt =>
        LET outs == BucketOutputs
        IN /\ Len(bucket_names) = Cardinality(TruthyUpTo(outs, Len(outs)))
           /\ \A i \in DOMAIN outs :
                 Truthy(outs[i].value) =>
                     bucket_names[Cardinality(TruthyUpTo(outs, i))]
                         = AsCandidate(outs[i])
           /\ (pc = "Raised") <=> (bucket_names = <<>>)

\* a bucket output without a value is left out of the map
C5_Witness ==
    /\ pc = "BucketCandidatesFound"
    /\ Outputs = <<[key |-> k_bucket_main, value |-> ""],
                   [key |-> k_DEV_BUCKET, value |-> "w"]>>
    /\ bucket_names = <<[key |-> k_DEV_BUCKET, name |-> "w"]>>

-----------------------------------------------------------------------------
(* Properties of connection-string discovery *)

Done == d_pc = "done"

ConfigFile(i) == config_files[config_paths[i]]

SpecificSet == environ[env_key(project_name, database_name)] # Unset
GenericSet  == environ[NEON_CONNECTION_STRING] # Unset
NoEnvSet    == ~SpecificSet /\ ~GenericSet

\* the values a config file holds for the requested project and database
HeldValues(f) ==
    IF f.kind # "object" THEN {}
    ELSE LET mine == {e \in Range(f.config) : e.key = project_name}
         IN {e.scalar : e \in {x \in mine : ~x.is_dict}}
            \cup {m.value : m \in {y \in UNION {Range(x.dict) : x \in {z \in mine : z.is_dict}} :
                                     y.key = database_name}}

Usable(f) == {v \in HeldValues(f) : Truthy(v)}

FileYields(i) == Usable(ConfigFile(i)) # {}

FirstYielding(i) == FileYields(i) /\ \A j \in 1..(i - 1) : ~FileYields(j)

ReturnedFrom(i) ==
    d_result.status = "returned" /\ d_result.value \in Usable(ConfigFile(i))

\* C6: discovery returns the value of the first source, in the order
\* NEON_<PROJECT>_<DATABASE>, NEON_CONNECTION_STRING, ~/.config/databot/neon.json,
\* ./.neon.json, ./neon.json, that yields something (a variable that is set, a
\* file with a usable entry).
C6_FirstYieldingSourceWins ==
    Done =>
        IF SpecificSet
        THEN d_result.status = "returned"
             /\ d_result.value = environ[env_key(project_name, database_name)]
        ELSE IF GenericSet
        THEN d_result.status = "returned"
             /\ d_result.value = environ[NEON_CONNECTION_STRING]
        ELSE \A i \in DOMAIN config_paths : FirstYielding(i) => ReturnedFrom(i)

\* a file the scan passes over without a result and without an error
PassedOver(i) ==
    \/ ConfigFile(i).kind \in {"absent", "invalid_json", "io_error"}
    \/ ConfigFile(i).kind = "object" /\ ~FileYields(i)

\* discovery gets as far as reading the i-th config file
Reaches(i) == NoEnvSet /\ \A j \in 1..(i - 1) : PassedOver(j)

HasProject(f) ==
    f.kind = "object" /\ \E e \in Range(f.config) : e.key = project_name

\* C7: when discovery reaches a parsed config file with the project as a
\* top-level key, a usable value found there (the entry for the database in a
\* mapping, the scalar itself otherwise) is the result; when there is none
\* the scan falls through: the next file decides if it yields, and discovery
\* fails if no later file yields.
C7_ProjectEntryDecides ==
    Done =>
        \A i \in DOMAIN config_paths :
            Reaches(i) /\ HasProject(ConfigFile(i)) =>
                IF FileYields(i) THEN ReturnedFrom(i)
                ELSE /\ (i < Len(config_paths) /\ FileYields(i + 1))
                            => ReturnedFrom(i + 1)
                     /\ (\A j \in (i + 1)..Len(config_paths) : ~FileYields(j))
                            => d_result.status = "raised"

\* {proj: {dbA: cs2}} asked for dbB yields nothing; the next file's scalar for
\* proj is used whatever the database
C7_Witness ==
    /\ Done
    /\ NoEnvSet
    /\ project_name = p_proj
    /\ database_name = db_B
    /\ ConfigFile(1) = File("object",
                            <<Mapping(p_proj, <<[key |-> db_A, value |-> "cs2"]>>)>>)
    /\ ConfigFile(2) = File("object", <<Scalar(p_proj, "cs1")>>)
    /\ d_result.status = "returned"
    /\ d_result.value = "cs1"

FailsToParse(i) == ConfigFile(i).kind \in {"invalid_json", "invalid_utf8"}

CouldNotDiscover == "RuntimeError: Could not discover connection string"

\* C8: a config file that exists and fails to parse is logged and skipped: it
\* never makes discovery fail, the first file with a usable value still wins,
\* and without one discovery ends in its own not-found error.
C8_UnparsableFileIsSkipped ==
    Done /\ NoEnvSet /\ (\E i \in DOMAIN config_paths : FailsToParse(i)) =>
        /\ \A i \in DOMAIN config_paths : FirstYielding(i) => ReturnedFrom(i)
        /\ (\A i \in DOMAIN config_paths : ~FileYields(i)) =>
              d_result.status = "raised" /\ d_result.error.type = CouldNotDiscover
        /\ \A i \in DOMAIN config_paths :
              FailsToParse(i) /\ (\A j \in 1..(i - 1) : ~FileYields(j)) =>
                  config_paths[i] \in d_result.warnings

NEON_PROJ_DBA == <<"N","E","O","N","_","P","R","O","J","_","D","B","A">>
NEON_PROJ_DBB == <<"N","E","O","N","_","P","R","O","J","_","D","B","B">>

ExpectedEnvName == IF database_name = db_A THEN NEON_PROJ_DBA ELSE NEON_PROJ_DBB

\* C9: with no environment variable set and no config file holding a usable
\* entry, discovery fails, and the error names the variable
\* NEON_<PROJECT>_<DATABASE> of the request and the config file to create.
C9_FailureNamesVariableAndFile ==
    Done /\ NoEnvSet /\ (\A i \in DOMAIN config_paths : ~FileYields(i)) =>
        /\ d_result.status = "raised"
        /\ d_result.error.env_key = ExpectedEnvName
        /\ d_result.error.path = home_neon_json

-----------------------------------------------------------------------------
(* Properties of the NeonClient *)

\* C10: a query method called while neither a connection nor a pool is held
\* raises the "Not connected" error and leaves the client as it was.
C10_QueryWithoutConnectionRaises ==
    [][ (calls' = calls + 1 /\ last_call'.op \in QueryOps /\ pool = 0 /\ conn = 0) =>
            /\ last_call'.outcome = NotConnected
            /\ UNCHANGED <<conn_str, pool, conn, handles, discoveries>>
      ]_vars

\* executemany after connect() and close()
C10_Witness ==
    /\ last_call = Called("executemany", NotConnected)
    /\ pool = 0
    /\ conn = 0
    /\ \E h \in DOMAIN handles : handles[h].closes = 1

\* C11: when the body of "async with client" ends, normally or with an
\* exception, the connection acquired on entry has been closed exactly once
\* and the client holds neither a connection nor a pool.
C11_ExitReleasesAcquiredConnection ==
    [][ (scope # 0 /\ scope' = 0) =>
            /\ handles'[scope].closes = 1
            /\ pool' = 0
            /\ conn' = 0
      ]_vars

\* the body raised after a query on the acquired connection
C11_Witness ==
    /\ last_call = Called("__aexit__", "BodyError")
    /\ scope = 0
    /\ conn = 0
    /\ pool = 0
    /\ calls = 3
    /\ \E h \in DOMAIN handles :
          handles[h].kind = "conn" /\ handles[h].closes = 1

-----------------------------------------------------------------------------
(* Properties of the Bucket *)

Guarded == {"delete_file", "download_file", "download_data"}

Underlying == {"delete", "download_to_filename", "download_as_bytes"}

\* C13: delete_file, download_file and download_data on an object that does
\* not exist end in the "not found" error of the existence check
\* (FileNotFoundError) and make no delete or download call on the blob.
C13_AbsentObjectNeverReachesBlobCall ==
    [][ (b_calls' = b_calls + 1 /\ b_last'.op \in Guarded
                                /\ b_last'.path \notin blobs) =>
            /\ b_last'.outcome = "FileNotFoundError"
            /\ \A i \in DOMAIN b_last'.blob_calls :
                  b_last'.blob_calls[i].method \notin Underlying
      ]_vars

-----------------------------------------------------------------------------
(* Properties of the StateLoader *)

Document == sl_file.document

\* the value of key k in the JSON object o, None when o has no such key
ValueOf(o, k) ==
    LET vs == {o[i].value : i \in {j \in DOMAIN o : o[j].key = k}}
    IN IF vs = {} THEN None ELSE CHOOSE v \in vs : TRUE

\* every output name with its bare value, in document order
BareOutputs ==
    [i \in DOMAIN Document.outputs |->
        KV(Document.outputs[i].key, ValueOf(Document.outputs[i].value, "value"))]

AccessorStep == sl_calls' = sl_calls + 1

\* C14: the outputs index maps each output name to its bare value and is
\* built at most once; every call of get_outputs, get_output and
\* get_module_outputs, whatever was called before, returns what that one
\* index holds.
C14_OutputsIndexBuiltOnce ==
    [][ AccessorStep =>
          /\ sl_built'.outputs <= 1
          /\ \A i \in DOMAIN sl_cache' :
                sl_cache'[i].key = "outputs" => sl_cache'[i].value = BareOutputs
          /\ sl_last'.op \in {"get_outputs", "get_output", "get_module_outputs"} =>
                sl_built'.outputs = 1
          /\ sl_last'.op = "get_outputs" => sl_last'.result = BareOutputs
          /\ sl_last'.op = "get_output" =>
                LET name == sl_last'.args[1]
                    default == sl_last'.args[2]
                IN IF \E i \in DOMAIN BareOutputs : BareOutputs[i].key = name
                   THEN sl_last'.result = ValueOf(BareOutputs, name)
                   ELSE sl_last'.result = default
          /\ sl_last'.op = "get_module_outputs" =>
                \A i \in DOMAIN sl_last'.result :
                    \E j \in DOMAIN BareOutputs :
                        /\ BareOutputs[j].key =
                              sl_last'.args[1] \o <<"_">> \o sl_last'.result[i].key
                        /\ BareOutputs[j].value = sl_last'.result[i].value
      ]_vars

\* get_outputs, get_resources, then get_outputs again, over a document with
\* an output that has a value and one that has none
C14_Witness ==
    /\ sl_calls = 3
    /\ sl_built = [outputs |-> 1, resources |-> 1]
    /\ sl_last.op = "get_outputs"
    /\ Len(sl_last.result) = 2
    /\ sl_last.result[1].value = "v"
    /\ sl_last.result[2].value = None

\* positions in the document of the resources of type t named n by name or
\* by address
Named(t, n) ==
    {i \in DOMAIN Document.resources :
        /\ Document.resources[i].type = t
        /\ Document.resources[i].name = n \/ Document.resources[i].address = n}

\* the k-th position of S in increasing order
Kth(S, k) == CHOOSE i \in S : Cardinality({j \in S : j <= i}) = k

\* C15: find_resources_by_name(type, name) returns the resources of that type
\* whose name or address equals name: all of them, in document order, and
\* nothing else; the empty list when there is none.
C15_FindReturnsAllMatchesInOrder ==
    [][ (AccessorStep /\ sl_last'.op = "find_resources_by_name") =>
          LET found == Named(sl_last'.args[1], sl_last'.args[2])
          IN /\ Len(sl_last'.result) = Cardinality(found)
             /\ \A k \in 1..Cardinality(found) :
                   sl_last'.result[k] = Document.resources[Kth(found, k)]
      ]_vars

\* two resources found, the first by its name and the second by its address
C15_Witness ==
    /\ sl_last.op = "find_resources_by_name"
    /\ sl_last.args = <<google_storage_bucket, "a">>
    /\ Len(sl_last.result) = 2
    /\ sl_last.result[1].name = "a"
    /\ sl_last.result[2].name = "b"
    /\ sl_last.result[2].address = "a"

TypedAccessors ==
    { [op |-> "get_google_storage_buckets",
       type |-> google_storage_bucket, attribute |-> "name"],
      [op |-> "get_google_service_accounts",
       type |-> google_service_account, attribute |-> "email"],
      [op |-> "get_google_workbench_instances",
       type |-> google_workbench_instance, attribute |-> "name"] }

\* <<i, j>>: instance j of resource i, for the resources of type t
InstancesOfType(t) ==
    UNION { {<<i, j>> : j \in DOMAIN Document.resources[i].instances} :
              i \in {r \in DOMAIN Document.resources :
                        Document.resources[r].type = t} }

AttributesAt(p) ==
    LET inst == Document.resources[p[1]].instances[p[2]]
    IN IF \E k \in DOMAIN inst : inst[k].key = "attributes"
       THEN ValueOf(inst, "attributes") ELSE <<>>

HasAttribute(p, a) ==
    \E k \in DOMAIN AttributesAt(p) : AttributesAt(p)[k].key = a

HasNonEmptyAttribute(p, a) ==
    HasAttribute(p, a) /\ Truthy(ValueOf(AttributesAt(p), a))

Before(p, q) == p[1] < q[1] \/ (p[1] = q[1] /\ p[2] <= q[2])

LastOf(P) == CHOOSE p \in P : \A q \in P : Before(q, p)

\* the map m holds one entry per attribute value of the instances P, with
\* the attributes of the last instance that has the value
KeyedByLast(m, P, a) ==
    /\ {m[k].key : k \in DOMAIN m} = {ValueOf(AttributesAt(p), a) : p \in P}
    /\ \A k, l \in DOMAIN m : m[k].key = m[l].key => k = l
    /\ \A k \in DOMAIN m :
          m[k].value =
            AttributesAt(LastOf({p \in P : ValueOf(AttributesAt(p), a) = m[k].key}))

\* C16 as stated: each typed accessor returns a map keyed by the attribute
\* (name or email) of every instance of its type that has the attribute,
\* with the attributes of the last such instance for each key.
C16_KeyedByEveryInstanceWithAttribute ==
    [][ AccessorStep =>
          \A acc \in TypedAccessors :
            sl_last'.op = acc.op =>
              KeyedByLast(sl_last'.result,
                          {p \in InstancesOfType(acc.type) :
                              HasAttribute(p, acc.attribute)},
                          acc.attribute)
      ]_vars

\* C16: each typed accessor returns a map keyed by the attribute (name or
\* email) of every instance of its type whose attribute is present and not
\* empty, with the attributes of the last such instance for each key.
C16_KeyedByEveryInstanceWithNonEmptyAttribute ==
    [][ AccessorStep =>
          \A acc \in TypedAccessors :
            sl_last'.op = acc.op =>
              KeyedByLast(sl_last'.result,
                          {p \in InstancesOfType(acc.type) :
                              HasNonEmptyAttribute(p, acc.attribute)},
                          acc.attribute)
      ]_vars

\* one google_storage_bucket resource with the instances a and b
C16_Witness ==
    /\ sl_last.op = "get_google_storage_buckets"
    /\ Len(Document.resources) = 1
    /\ Document.resources[1].type = google_storage_bucket
    /\ Document.resources[1].instances = <<i_a, i_b>>
    /\ Len(sl_last.result) = 2
    /\ sl_last.result[1].key = "a"
    /\ sl_last.result[2].key = "b"

Constructed == sl_pc # "start"

\* C17: StateLoader(path) raises FileNotFoundError when the path does not
\* exist and, when the content is not valid JSON, JSONDecodeError with the
\* text of the file and the position where decoding stopped; in both cases
\* there is no StateLoader; otherwise there is one, holding the document and
\* an empty cache.
C17_LoadFailsWithNotFoundOrParseError ==
    Constructed =>
        /\ sl_file.kind = "absent" =>
              sl_pc = "raised" /\ sl_error.type = "FileNotFoundError"
        /\ sl_file.kind \in {"invalid_json", "invalid_utf8"} =>
              /\ sl_pc = "raised"
              /\ sl_error.type = "JSONDecodeError"
              /\ sl_error.doc = sl_file.text
              /\ sl_error.pos = sl_file.pos
        /\ sl_pc = "loaded" <=> sl_file.kind = "ok"
        /\ sl_pc = "loaded" =>
              /\ sl_state = Document
              /\ sl_error = NoLoaderError
              /\ sl_calls = 0 => sl_cache = <<>>

\* positions of the outputs whose key starts with the module name and "_"
OfModule(m) ==
    {i \in DOMAIN BareOutputs :
        /\ Len(BareOutputs[i].key) >= Len(m) + 1
        /\ \A k \in 1..Len(m) : BareOutputs[i].key[k] = m[k]
        /\ BareOutputs[i].key[Len(m) + 1] = "_"}

\* C18: get_module_outputs(module_name) returns exactly the outputs whose key
\* starts with "<module_name>_", each under the rest of its key after the
\* module name and the underscore, with its value unchanged, in document
\* order; every other output is absent.
C18_ModuleOutputsAreRekeyed ==
    [][ (AccessorStep /\ sl_last'.op = "get_module_outputs") =>
          LET m == sl_last'.args[1]
              of_m == OfModule(m)
          IN /\ Len(sl_last'.result) = Cardinality(of_m)
             /\ \A k \in 1..Cardinality(of_m) :
                   LET o == BareOutputs[Kth(of_m, k)]
                   IN /\ m \o <<"_">> \o sl_last'.result[k].key = o.key
                      /\ sl_last'.result[k].value = o.value
      ]_vars

\* outputs {storage_bucket_name: v, dev_bucket_name: w}; module storage
C18_Witness ==
    /\ sl_last.op = "get_module_outputs"
    /\ sl_last.args = <<m_storage>>
    /\ Len(Document.outputs) = 2
    /\ Document.outputs[1].key = k_storage_bucket_name
    /\ Document.outputs[2].key = k_dev_bucket_name
    /\ sl_last.result = <<KV(<<"b","u","c","k","e","t","_","n","a","m","e">>, "v")>>

-----------------------------------------------------------------------------
(* Properties of the NeonClient: connection string and handles *)

\* a call that read connection_string and got a value from discovery
DiscoveryReturned ==
    /\ discoveries' = discoveries + 1
    /\ last_call'.outcome \in {"ok", "ConnectionError"}

\* C19: a connection string that discovery returns is not empty, so once it
\* has returned, connection_string keeps that value and discovery does not
\* run again.
C19_DiscoveredStringIsNonEmpty ==
    [][ /\ DiscoveryReturned =>
              /\ Truthy(conn_str')
              /\ discoveries = 0 \/ ~Truthy(conn_str)
        /\ (discoveries > 0 /\ Truthy(conn_str)) =>
              /\ conn_str' = conn_str
              /\ discoveries' = discoveries
      ]_vars

\* C20: connect opens a connection only while none is held and a pool only
\* while none is held, so every connection and pool that was opened and not
\* closed is still held by the client.
C20_ConnectIsIdempotentPerMode ==
    [][ /\ \A h \in DOMAIN handles' :
              handles'[h].closes = 0 => h \in {pool', conn'}
        /\ Len(handles') > Len(handles) =>
              /\ Len(handles') = Len(handles) + 1
              /\ handles'[Len(handles')].kind = "conn" => conn = 0
              /\ handles'[Len(handles')].kind = "pool" => pool = 0
      ]_vars

\* four connects, two of them with nothing left to open
C20_Witness ==
    /\ calls = 4
    /\ discoveries = 1
    /\ last_call = Called("connect", "ok")
    /\ Len(handles) = 2
    /\ pool # 0
    /\ conn # 0
    /\ \A h \in DOMAIN handles : handles[h].closes = 0

\* the handles the client holds: its pool and its connection, if any
Held == {pool, conn} \ {0}

\* C21: close() closes the pool and the connection the client holds, each
\* exactly once, touches no other handle and clears both fields; called with
\* nothing held, as a second close() is, it closes nothing; no handle is ever
\* closed twice.
C21_CloseReleasesEverythingOnce ==
    [][ (calls' = calls + 1 /\ last_call'.op = "close") =>
          /\ pool' = 0
          /\ conn' = 0
          /\ DOMAIN handles' = DOMAIN handles
          /\ \A h \in DOMAIN handles :
                /\ handles'[h].kind = handles[h].kind
                /\ handles'[h].closes =
                      IF h \in Held THEN handles[h].closes + 1
                                    ELSE handles[h].closes
                /\ handles'[h].closes <= 1
      ]_vars

\* close() has closed a pool and a connection that were both held
C21_Witness ==
    /\ calls = 4
    /\ last_call = Called("close", "ok")
    /\ pool = 0
    /\ conn = 0
    /\ Len(handles) = 2
    /\ {handles[h].kind : h \in DOMAIN handles} = {"pool", "conn"}
    /\ \A h \in DOMAIN handles : handles[h].closes = 1

====
